---- MODULE Spec2Model ----
(***************************************************************************)
(* Model of python/sanitize.py (closure-templates): the tag-whitelist      *)
(* filter _strip_html_tags with its helpers _tag_sub_handler and           *)
(* _balance_tags, the SanitizedContent class family, and the escaping      *)
(* directives that dispatch on the content kind.                           *)
(*                                                                         *)
(* A Python string is a sequence of one-character strings, so that         *)
(* "<b>" is <<"<", "b", ">">>.  Python indexes from 0, TLA+ from 1.        *)
(***************************************************************************)
EXTENDS Integers, Sequences, FiniteSets, TLC

VARIABLES
    pc,               \* position of the call in progress
    call,             \* the top-level call and its arguments
    html,             \* _strip_html_tags: the local html
    pos,              \* _HTML_TAG_REGEX.sub: where the scan resumes in html
    out,              \* _HTML_TAG_REGEX.sub: the text produced so far
    tags,             \* _strip_html_tags: the local list tags
    i,                \* _balance_tags: the index of the enumerate loop
    open_tags,        \* _balance_tags: the local list open_tags
    final_close_tags, \* _strip_html_tags: the local final_close_tags
    result            \* what the top-level call returned or raised

vars == <<pc, call, html, pos, out, tags, i, open_tags, final_close_tags, result>>

-----------------------------------------------------------------------------
(* Bounds of the model.                                                    *)

\* The longest input of _strip_html_tags, counted in fragments.
MaxChunks == 3

\* The longest content handed to an escaping directive, in fragments.
MaxDirectiveChunks == 1

\* The longest justification handed to an approval, in characters.
MaxJustification == 21

-----------------------------------------------------------------------------
(* Characters.                                                             *)

LowerCase == <<"a", "b", "c", "d", "e", "f", "g", "h", "i", "j", "k", "l", "m",
               "n", "o", "p", "q", "r", "s", "t", "u", "v", "w", "x", "y", "z">>

UpperCase == <<"A", "B", "C", "D", "E", "F", "G", "H", "I", "J", "K", "L", "M",
               "N", "O", "P", "Q", "R", "S", "T", "U", "V", "W", "X", "Y", "Z">>

Digits == <<"0", "1", "2", "3", "4", "5", "6", "7", "8", "9">>

Range(f) == {f[k] : k \in DOMAIN f}

IsLetter(c) == c \in Range(LowerCase) \cup Range(UpperCase)

IsDigit(c) == c \in Range(Digits)

\* \w of the re module, as far as \b needs it.
IsWordChar(c) == IsLetter(c) \/ IsDigit(c) \/ c = "_"

Min(S) == CHOOSE x \in S : \A y \in S : x <= y

Max(S) == CHOOSE x \in S : \A y \in S : x >= y

\* s[from:] of Python with a 1-based first index.
From(s, p) == SubSeq(s, p, Len(s))

RECURSIVE Join(_)
\* ''.join(parts)
Join(parts) ==
    IF parts = <<>> THEN <<>> ELSE Head(parts) \o Join(Tail(parts))

\* reversed(xs)
Reversed(xs) == [k \in 1..Len(xs) |-> xs[Len(xs) + 1 - k]]

\* str.lower() on one character, and on a string.
LowerChar(c) ==
    IF c \in Range(UpperCase)
    THEN LowerCase[CHOOSE k \in DOMAIN UpperCase : UpperCase[k] = c]
    ELSE c

Lower(s) == [k \in 1..Len(s) |-> LowerChar(s[k])]

RECURSIVE Decimal(_)
\* '%d' % n for n >= 0
Decimal(n) ==
    IF n < 10 THEN <<Digits[n + 1]>>
    ELSE Decimal(n \div 10) \o <<Digits[(n % 10) + 1]>>

DigitValue(c) == (CHOOSE k \in DOMAIN Digits : Digits[k] = c) - 1

RECURSIVE ParseInt(_)
\* int(s) for a string of decimal digits
ParseInt(s) ==
    IF Len(s) = 1 THEN DigitValue(s[1])
    ELSE 10 * ParseInt(SubSeq(s, 1, Len(s) - 1)) + DigitValue(s[Len(s)])

-----------------------------------------------------------------------------
(* The escaping backend: generated_sanitize.  sanitize.py imports it and   *)
(* does not define it; its patterns and helpers follow the description of  *)
(* the backend's surface.                                                  *)

\* A character of a tag name after its first letter.
IsNameChar(c) == IsLetter(c) \/ IsDigit(c) \/ c = "-" \/ c = ":"

\* _HTML_TAG_REGEX tried at position p of s: '<name ...>' or '</name>'.
\* group0 is the whole match, group1 the name, last the index of the '>'.
TagMatchAt(s, p) ==
    LET n       == Len(s)
        isClose == p + 1 <= n /\ s[p + 1] = "/"
        q       == IF isClose THEN p + 2 ELSE p + 1
        nameEnd == Max({e \in q..n : \A k \in q..e : IsNameChar(s[k])} \cup {q})
        gts     == {k \in (nameEnd + 1)..n : s[k] = ">"}
        found   == /\ p <= n
                   /\ s[p] = "<"
                   /\ q <= n
                   /\ IsLetter(s[q])
                   /\ IF isClose
                      THEN nameEnd + 1 <= n /\ s[nameEnd + 1] = ">"
                      ELSE gts # {}
        last    == IF isClose THEN nameEnd + 1 ELSE Min(gts)
    IN  IF found
        THEN [found |-> TRUE, last |-> last,
              group0 |-> SubSeq(s, p, last), group1 |-> SubSeq(s, q, nameEnd)]
        ELSE [found |-> FALSE, last |-> 0, group0 |-> <<>>, group1 |-> <<>>]

\* The start of the leftmost match of _HTML_TAG_REGEX at or after p; 0 if none.
FindTag(s, p) ==
    LET starts == {k \in p..Len(s) : TagMatchAt(s, k).found}
    IN  IF starts = {} THEN 0 ELSE Min(starts)

RECURSIVE DeleteTagsFrom(_, _)
DeleteTagsFrom(s, p) ==
    LET k == FindTag(s, p)
    IN  IF k = 0 THEN From(s, p)
        ELSE SubSeq(s, p, k - 1) \o DeleteTagsFrom(s, TagMatchAt(s, k).last + 1)

\* generated_sanitize._HTML_TAG_REGEX.sub('', s)
DeleteTags(s) == DeleteTagsFrom(s, 1)

LtEntity(c) == IF c = "<" THEN <<"&", "l", "t", ";">> ELSE <<c>>

\* generated_sanitize._LT_REGEX.sub('&lt;', s)
ReplaceLt(s) == Join([k \in 1..Len(s) |-> LtEntity(s[k])])

NormalizeEntity(c) ==
    CASE c = "<"  -> <<"&", "l", "t", ";">>
      [] c = ">"  -> <<"&", "g", "t", ";">>
      [] c = "\"" -> <<"&", "q", "u", "o", "t", ";">>
      [] c = "'"  -> <<"&", "#", "3", "9", ";">>
      [] OTHER    -> <<c>>

EscapeEntity(c) ==
    IF c = "&" THEN <<"&", "a", "m", "p", ";">> ELSE NormalizeEntity(c)

NormalizeNoSpaceEntity(c) ==
    IF c = " " THEN <<"&", "#", "3", "2", ";">> ELSE NormalizeEntity(c)

EscapeNoSpaceEntity(c) ==
    IF c = " " THEN <<"&", "#", "3", "2", ";">> ELSE EscapeEntity(c)

\* generated_sanitize.normalize_html_helper
normalize_html_helper(s) == Join([k \in 1..Len(s) |-> NormalizeEntity(s[k])])

\* generated_sanitize.escape_html_helper
escape_html_helper(s) == Join([k \in 1..Len(s) |-> EscapeEntity(s[k])])

\* generated_sanitize.normalize_html_nospace_helper
normalize_html_nospace_helper(s) ==
    Join([k \in 1..Len(s) |-> NormalizeNoSpaceEntity(s[k])])

\* generated_sanitize.escape_html_nospace_helper
escape_html_nospace_helper(s) ==
    Join([k \in 1..Len(s) |-> EscapeNoSpaceEntity(s[k])])

-----------------------------------------------------------------------------
(* Constants of sanitize.py.                                               *)

\* The names _HTML5_VOID_ELEMENTS_RE lists.
VoidElementNames ==
    { <<"a", "r", "e", "a">>, <<"b", "a", "s", "e">>, <<"b", "r">>,
      <<"c", "o", "l">>, <<"c", "o", "m", "m", "a", "n", "d">>,
      <<"e", "m", "b", "e", "d">>, <<"h", "r">>, <<"i", "m", "g">>,
      <<"i", "n", "p", "u", "t">>, <<"k", "e", "y", "g", "e", "n">>,
      <<"l", "i", "n", "k">>, <<"m", "e", "t", "a">>,
      <<"p", "a", "r", "a", "m">>, <<"s", "o", "u", "r", "c", "e">>,
      <<"t", "r", "a", "c", "k">>, <<"w", "b", "r">> }

\* _HTML5_VOID_ELEMENTS_RE.match(tag): '^<(?:area|...|wbr)\b'
MatchesVoidElement(tag) ==
    \E v \in VoidElementNames :
        /\ Len(tag) >= Len(v) + 1
        /\ tag[1] = "<"
        /\ SubSeq(tag, 2, Len(v) + 1) = v
        /\ (Len(tag) = Len(v) + 1 \/ ~IsWordChar(tag[Len(v) + 2]))

_INNOCUOUS_OUTPUT == <<"z", "S", "o", "y", "z">>

\* _REPLACEMENT_TAG_RE tried at position p of s: '\[(\d+)\]'.
MarkerMatchAt(s, p) ==
    LET n        == Len(s)
        digitEnd == Max({e \in (p + 1)..n : \A k \in (p + 1)..e : IsDigit(s[k])}
                        \cup {p})
        found    == /\ p <= n
                    /\ s[p] = "["
                    /\ digitEnd > p
                    /\ digitEnd + 1 <= n
                    /\ s[digitEnd + 1] = "]"
    IN  IF found
        THEN [found |-> TRUE, last |-> digitEnd + 1,
              group1 |-> SubSeq(s, p + 1, digitEnd)]
        ELSE [found |-> FALSE, last |-> 0, group1 |-> <<>>]

-----------------------------------------------------------------------------
(* The tag-whitelist filter.                                               *)

\* What a call leaves in result when it raises.
Raised(exception) == <<exception>>

\* str(value).replace('[', '&#91;')
EscapeBracket(c) == IF c = "[" THEN <<"&", "#", "9", "1", ";">> ELSE <<c>>

\* escape_marker without the replacement: '[' stays as it is.
escape_marker_Identity(value) == value

escape_marker(value) == Join([k \in 1..Len(value) |-> EscapeBracket(value[k])])

\* _tag_sub_handler without the test 'name in tag_whitelist'.
_tag_sub_handler_AnyName(tag_whitelist, tagList, match) ==
    LET tag   == match.group0
        name  == Lower(match.group1)
        start == IF tag[2] = "/" THEN <<"<", "/">> ELSE <<"<">>
        index == Len(tagList)
    IN  [tags |-> Append(tagList, start \o name \o <<">">>),
         repl |-> <<"[">> \o Decimal(index) \o <<"]">>]

\* _tag_sub_handler with 'index = len(tags)' taken after the append.
_tag_sub_handler_IndexAfterAppend(tag_whitelist, tagList, match) ==
    LET tag   == match.group0
        name  == Lower(match.group1)
        start == IF tag[2] = "/" THEN <<"<", "/">> ELSE <<"<">>
        index == Len(tagList) + 1
    IN  IF name \in tag_whitelist
        THEN [tags |-> Append(tagList, start \o name \o <<">">>),
              repl |-> <<"[">> \o Decimal(index) \o <<"]">>]
        ELSE [tags |-> tagList, repl |-> <<>>]

\* _tag_sub_handler(tag_whitelist, tags, match): the list tags after the call
\* and the string returned to re.sub.
_tag_sub_handler(tag_whitelist, tagList, match) ==
    LET tag   == match.group0
        name  == Lower(match.group1)
        start == IF tag[2] = "/" THEN <<"<", "/">> ELSE <<"<">>
        index == Len(tagList)
    IN  IF name \in tag_whitelist
        THEN [tags |-> Append(tagList, start \o name \o <<">">>),
              repl |-> <<"[">> \o Decimal(index) \o <<"]">>]
        ELSE [tags |-> tagList, repl |-> <<>>]

\* BalanceRecord that keeps a close tag without an open tag.
BalanceRecord_KeepOrphan(openTags, tag) ==
    IF tag[2] = "/"
    THEN LET matches == {k \in 1..Len(openTags) : openTags[k] = tag}
             p       == IF matches = {} THEN 0 ELSE Max(matches)
         IN  IF p = 0
             THEN [open_tags |-> openTags, replacement |-> tag]
             ELSE [open_tags   |-> SubSeq(openTags, 1, p - 1),
                   replacement |-> Join(Reversed(From(openTags, p)))]
    ELSE IF ~MatchesVoidElement(tag)
         THEN [open_tags   |-> Append(openTags, <<"<", "/">> \o Tail(tag)),
               replacement |-> tag]
         ELSE [open_tags |-> openTags, replacement |-> tag]

\* BalanceRecord that pops and closes the matching entry alone.
BalanceRecord_PopOne(openTags, tag) ==
    IF tag[2] = "/"
    THEN LET matches == {k \in 1..Len(openTags) : openTags[k] = tag}
             p       == IF matches = {} THEN 0 ELSE Max(matches)
         IN  IF p = 0
             THEN [open_tags |-> openTags, replacement |-> <<>>]
             ELSE [open_tags   |-> SubSeq(openTags, 1, p - 1)
                                   \o SubSeq(openTags, p + 1, Len(openTags)),
                   replacement |-> openTags[p]]
    ELSE IF ~MatchesVoidElement(tag)
         THEN [open_tags   |-> Append(openTags, <<"<", "/">> \o Tail(tag)),
               replacement |-> tag]
         ELSE [open_tags |-> openTags, replacement |-> tag]

\* BalanceRecord without the test against _HTML5_VOID_ELEMENTS_RE.
BalanceRecord_PushVoid(openTags, tag) ==
    IF tag[2] = "/"
    THEN LET matches == {k \in 1..Len(openTags) : openTags[k] = tag}
             p       == IF matches = {} THEN 0 ELSE Max(matches)
         IN  IF p = 0
             THEN [open_tags |-> openTags, replacement |-> <<>>]
             ELSE [open_tags   |-> SubSeq(openTags, 1, p - 1),
                   replacement |-> Join(Reversed(From(openTags, p)))]
    ELSE [open_tags   |-> Append(openTags, <<"<", "/">> \o Tail(tag)),
          replacement |-> tag]

\* The body of the loop of _balance_tags for one tag: the stack afterwards and
\* the value tags[i] holds afterwards.
BalanceRecord(openTags, tag) ==
    IF tag[2] = "/"
    THEN LET matches == {k \in 1..Len(openTags) : openTags[k] = tag}
             p       == IF matches = {} THEN 0 ELSE Max(matches)
         IN  IF p = 0
             THEN [open_tags |-> openTags, replacement |-> <<>>]
             ELSE [open_tags   |-> SubSeq(openTags, 1, p - 1),
                   replacement |-> Join(Reversed(From(openTags, p)))]
    ELSE IF ~MatchesVoidElement(tag)
         THEN [open_tags   |-> Append(openTags, <<"<", "/">> \o Tail(tag)),
               replacement |-> tag]
         ELSE [open_tags |-> openTags, replacement |-> tag]

\* FinalCloseTags without reversed(): ''.join(open_tags)
FinalCloseTags_Unreversed(openTags) == Join(openTags)

\* The return value of _balance_tags: ''.join(reversed(open_tags))
FinalCloseTags(openTags) == Join(Reversed(openTags))

RECURSIVE BalanceFrom(_, _, _)
BalanceFrom(tagList, k, openTags) ==
    IF k > Len(tagList)
    THEN [tags |-> tagList, final_close_tags |-> FinalCloseTags(openTags)]
    ELSE LET r == BalanceRecord(openTags, tagList[k])
         IN  BalanceFrom([tagList EXCEPT ![k] = r.replacement], k + 1, r.open_tags)

\* _balance_tags(tags): the list tags after the call and the string returned.
_balance_tags(tagList) == BalanceFrom(tagList, 1, <<>>)

RECURSIVE TagSubFrom(_, _, _, _)
TagSubFrom(tag_whitelist, s, p, tagList) ==
    LET k == FindTag(s, p)
    IN  IF k = 0 THEN [html |-> From(s, p), tags |-> tagList]
        ELSE LET m    == TagMatchAt(s, k)
                 h    == _tag_sub_handler(tag_whitelist, tagList, m)
                 rest == TagSubFrom(tag_whitelist, s, m.last + 1, h.tags)
             IN  [html |-> SubSeq(s, p, k - 1) \o h.repl \o rest.html,
                  tags |-> rest.tags]

\* generated_sanitize._HTML_TAG_REGEX.sub(tag_handler, html) with the handler
\* bound to tag_whitelist and an empty list tags.
TagSub(tag_whitelist, s) == TagSubFrom(tag_whitelist, s, 1, <<>>)

RECURSIVE ReinsertFrom(_, _, _)
ReinsertFrom(s, tagList, p) ==
    IF p > Len(s) THEN <<>>
    ELSE LET m == MarkerMatchAt(s, p)
         IN  IF ~m.found
             THEN LET rest == ReinsertFrom(s, tagList, p + 1)
                  IN  IF rest = Raised("IndexError") THEN rest
                      ELSE <<s[p]>> \o rest
             ELSE LET index == ParseInt(m.group1)
                      rest  == ReinsertFrom(s, tagList, m.last + 1)
                  IN  IF index >= Len(tagList) \/ rest = Raised("IndexError")
                      THEN Raised("IndexError")
                      ELSE tagList[index + 1] \o rest

\* _REPLACEMENT_TAG_RE.sub(lambda match: tags[int(match.group(1))], html)
ReinsertTags(s, tagList) == ReinsertFrom(s, tagList, 1)

\* _strip_html_tags(value, tag_whitelist); an absent whitelist is the empty one.
_strip_html_tags(value, tag_whitelist) ==
    IF tag_whitelist = {}
    THEN ReplaceLt(DeleteTags(value))
    ELSE LET scanned  == TagSub(tag_whitelist, escape_marker(value))
             text     == normalize_html_helper(scanned.html)
             balanced == _balance_tags(scanned.tags)
             inserted == ReinsertTags(text, balanced.tags)
         IN  IF inserted = Raised("IndexError") THEN inserted
             ELSE inserted \o balanced.final_close_tags

-----------------------------------------------------------------------------
(* Values, content kinds and the SanitizedContent classes.                 *)

\* CONTENT_KIND: HTML, JS, JS_STR_CHARS, URI, ATTRIBUTES, CSS, TEXT = range(1, 8)
CONTENT_KIND == [HTML |-> 1, JS |-> 2, JS_STR_CHARS |-> 3, URI |-> 4,
                 ATTRIBUTES |-> 5, CSS |-> 6, TEXT |-> 7]

\* The content_kind a class that sets none inherits: None, written 0.
NoKind == 0

\* None where a string may stand.
None == <<"None">>

\* A str object, the None object and a raised exception, as values.
Str(s) == [class |-> "str", content |-> s]

NoneValue == [class |-> "NoneType"]

Raise(exception) == [class |-> "raise", exception |-> exception]

ConcreteClasses ==
    {"SanitizedCss", "SanitizedHtml", "SanitizedHtmlAttribute", "SanitizedJs",
     "SanitizedJsStrChars", "SanitizedUri", "UnsanitizedText"}

Classes == ConcreteClasses \cup {"SanitizedContent"}

\* The class attribute content_kind.
ContentKindOf(cls) ==
    CASE cls = "SanitizedCss"           -> CONTENT_KIND.CSS
      [] cls = "SanitizedHtml"          -> CONTENT_KIND.HTML
      [] cls = "SanitizedHtmlAttribute" -> CONTENT_KIND.ATTRIBUTES
      [] cls = "SanitizedJs"            -> CONTENT_KIND.JS
      [] cls = "SanitizedJsStrChars"    -> CONTENT_KIND.JS_STR_CHARS
      [] cls = "SanitizedUri"           -> CONTENT_KIND.URI
      [] cls = "UnsanitizedText"        -> CONTENT_KIND.TEXT
      [] OTHER                          -> NoKind

\* IActuallyUnderstandSoyTypeSafetyAndHaveSecurityApproval(justification)
Approval(justification) ==
    [class |-> "IActuallyUnderstandSoyTypeSafetyAndHaveSecurityApproval",
     justification |-> IF justification # None /\ justification # <<>>
                       THEN justification ELSE None]

\* 'Unsanitized Text does not require approval.'
UnsanitizedTextJustification ==
    <<"U", "n", "s", "a", "n", "i", "t", "i", "z", "e", "d", " ", "T", "e", "x",
      "t", " ", "d", "o", "e", "s", " ", "n", "o", "t", " ", "r", "e", "q", "u",
      "i", "r", "e", " ", "a", "p", "p", "r", "o", "v", "a", "l", ".">>

\* SanitizedContent.__init__ without the test of the justification's length.
SanitizedContent__init__NoLength(cls, content, content_dir, approval) ==
    IF approval.class # "IActuallyUnderstandSoyTypeSafetyAndHaveSecurityApproval"
    THEN Raise("TypeError")
    ELSE IF approval.justification = None \/ approval.justification = <<>>
         THEN Raise("TypeError")
         ELSE [class |-> cls, content_kind |-> ContentKindOf(cls),
               content |-> content, content_dir |-> content_dir]

\* SanitizedContent.__init__(self, content, content_dir, approval)
SanitizedContent__init__(cls, content, content_dir, approval) ==
    IF approval.class # "IActuallyUnderstandSoyTypeSafetyAndHaveSecurityApproval"
    THEN Raise("TypeError")
    ELSE IF \/ approval.justification = None
            \/ approval.justification = <<>>
            \/ Len(approval.justification) < 20
         THEN Raise("TypeError")
         ELSE [class |-> cls, content_kind |-> ContentKindOf(cls),
               content |-> content, content_dir |-> content_dir]

\* cls(content, content_dir, approval): __new__, then the __init__ of cls.
\* The classes whose __init__ takes no content_dir ignore the one given here.
Construct(cls, content, content_dir, approval) ==
    IF cls = "SanitizedContent" \/ ContentKindOf(cls) = NoKind
    THEN Raise("TypeError")
    ELSE CASE cls \in {"SanitizedCss", "SanitizedHtmlAttribute",
                       "SanitizedJs", "SanitizedUri"} ->
                SanitizedContent__init__(cls, content, "LTR", approval)
           [] cls = "UnsanitizedText" ->
                SanitizedContent__init__(cls, content, content_dir,
                                         Approval(UnsanitizedTextJustification))
           [] OTHER ->
                SanitizedContent__init__(cls, content, content_dir, approval)

\* isinstance(value, SanitizedContent)
IsSanitizedContent(value) == value.class \in ConcreteClasses

is_content_kind(value, content_kind) ==
    IsSanitizedContent(value) /\ value.content_kind = content_kind

-----------------------------------------------------------------------------
(* The escaping directives.                                                *)

\* escape_html_attribute that normalizes an HTML-kind value without stripping.
escape_html_attribute_NoStrip(value) ==
    IF is_content_kind(value, CONTENT_KIND.HTML)
    THEN Str(normalize_html_helper(value.content))
    ELSE Str(escape_html_helper(value.content))

escape_html_attribute(value) ==
    IF is_content_kind(value, CONTENT_KIND.HTML)
    THEN Str(normalize_html_helper(_strip_html_tags(value.content, {})))
    ELSE Str(escape_html_helper(value.content))

escape_html_attribute_nospace(value) ==
    IF is_content_kind(value, CONTENT_KIND.HTML)
    THEN Str(normalize_html_nospace_helper(_strip_html_tags(value.content, {})))
    ELSE Str(escape_html_nospace_helper(value.content))

escape_html_rcdata(value) ==
    IF is_content_kind(value, CONTENT_KIND.HTML)
    THEN Str(normalize_html_helper(value.content))
    ELSE Str(escape_html_helper(value.content))

\* filter_no_auto_escape that returns every value.
filter_no_auto_escape_PassAll(value) == value

filter_no_auto_escape(value) ==
    IF is_content_kind(value, CONTENT_KIND.TEXT)
    THEN Str(_INNOCUOUS_OUTPUT)
    ELSE value

-----------------------------------------------------------------------------
(* The inputs the calls are made with.                                     *)

\* The fragments inputs are put together from: '<b>', '</b>', '<i>', '</i>',
\* '<br>', '<B x>', '[0]' and '<'.
Chunks ==
    { <<"<", "b", ">">>, <<"<", "/", "b", ">">>, <<"<", "i", ">">>, <<"<", "/", "i", ">">>,
      <<"<", "b", "r", ">">>, <<"<", "B", " ", "x", ">">>,
      <<"[", "0", "]">>, <<"<">> }

ChunkInputs(maxChunks) ==
    {Join(cs) : cs \in UNION {[1..n -> Chunks] : n \in 0..maxChunks}}

Name_b == <<"b">>

Name_i == <<"i">>

Name_br == <<"b", "r">>

Name_br_x == <<"b", "r", "-", "x">>

Name_table == <<"t", "a", "b", "l", "e">>

Name_tr == <<"t", "r">>

Whitelists == { {}, {Name_b, Name_i}, {Name_b, Name_i, Name_br} }

\* '<script>alert(1)</script>hi'
ScriptInput ==
    <<"<", "s", "c", "r", "i", "p", "t", ">", "a", "l", "e", "r", "t", "(", "1", ")", "<", "/", "s", "c", "r", "i", "p", "t", ">", "h", "i">>

\* '<table><tr>'
TableInput == <<"<", "t", "a", "b", "l", "e", ">", "<", "t", "r", ">">>

\* '</b>text'
OrphanInput == <<"<", "/", "b", ">", "t", "e", "x", "t">>

\* '<b><i>x</b></i>'
CrossedInput ==
    <<"<", "b", ">", "<", "i", ">", "x", "<", "/", "b", ">", "<", "/", "i", ">">>

\* '<<s>b>'
NestedLtInput == <<"<", "<", "s", ">", "b", ">">>

\* '<br-x>x</br-x>'
HyphenInput ==
    <<"<", "b", "r", "-", "x", ">", "x", "<", "/", "b", "r", "-", "x", ">">>

\* '<b>' eleven times over
ElevenInput == Join([k \in 1..11 |-> <<"<", "b", ">">>])

\* '<b><br></br>'
VoidInput ==
    <<"<", "b", ">", "<", "b", "r", ">", "<", "/", "b", "r", ">">>

\* '<script>'
ScriptTag == <<"<", "s", "c", "r", "i", "p", "t", ">">>

\* 'a & b'
AmpersandInput == <<"a", " ", "&", " ", "b">>

StripCalls ==
    (ChunkInputs(MaxChunks) \X Whitelists)
    \cup { <<ScriptInput, {}>>,
           <<TableInput, {Name_table, Name_tr}>>,
           <<OrphanInput, {Name_b}>>,
           <<CrossedInput, {Name_b, Name_i}>>,
           <<NestedLtInput, {}>>,
           <<NestedLtInput, {Name_b, Name_i}>>,
           <<HyphenInput, {Name_br_x}>>,
           <<VoidInput, {Name_b, Name_i, Name_br}>>,
           <<ElevenInput, {Name_b, Name_i}>> }

Dirs == {"None", "LTR", "NEUTRAL", "RTL"}

Justifications == {None} \cup {[k \in 1..n |-> "x"] : n \in 0..MaxJustification}

Approvals ==
    {NoneValue, Str(<<"o", "k">>)} \cup {Approval(j) : j \in Justifications}

DirectiveContents ==
    (ChunkInputs(MaxDirectiveChunks) \ {<<>>}) \cup {ScriptTag, AmpersandInput}

\* An approval with a justification of 20 characters.
SomeApproval == Approval([k \in 1..20 |-> "x"])

DirectiveValues ==
    {Str(c) : c \in DirectiveContents}
    \cup {Construct(cls, c, "None", SomeApproval) :
            cls \in ConcreteClasses, c \in DirectiveContents}

-----------------------------------------------------------------------------
(* The state machine.                                                      *)

Init ==
    /\ pc = "idle"
    /\ call = [op |-> "none"]
    /\ html = <<>>
    /\ pos = 0
    /\ out = <<>>
    /\ tags = <<>>
    /\ i = 0
    /\ open_tags = <<>>
    /\ final_close_tags = <<>>
    /\ result = NoneValue

\* A caller enters _strip_html_tags(value, tag_whitelist).
Call_strip_html_tags ==
    /\ pc = "idle"
    /\ \E c \in StripCalls :
          call' = [op |-> "_strip_html_tags", value |-> c[1], tag_whitelist |-> c[2]]
    /\ pc' = "strip"
    /\ UNCHANGED <<html, pos, out, tags, i, open_tags, final_close_tags, result>>

\* 'if not tag_whitelist: return _LT_REGEX.sub(..., _HTML_TAG_REGEX.sub(...))'
StripAllTags ==
    /\ pc = "strip"
    /\ call.tag_whitelist = {}
    /\ result' = Str(ReplaceLt(DeleteTags(call.value)))
    /\ pc' = "done"
    /\ UNCHANGED <<call, html, pos, out, tags, i, open_tags, final_close_tags>>

\* "html = str(value).replace('[', '&#91;')" and 'tags = []'; the scan starts.
EscapeMarker ==
    /\ pc = "strip"
    /\ call.tag_whitelist # {}
    /\ html' = escape_marker(call.value)
    /\ tags' = <<>>
    /\ pos' = 1
    /\ out' = <<>>
    /\ pc' = "scan"
    /\ UNCHANGED <<call, i, open_tags, final_close_tags, result>>

\* _HTML_TAG_REGEX.sub finds its next match and calls _tag_sub_handler on it.
TagSubHandler ==
    /\ pc = "scan"
    /\ FindTag(html, pos) # 0
    /\ LET k == FindTag(html, pos)
           m == TagMatchAt(html, k)
           h == _tag_sub_handler(call.tag_whitelist, tags, m)
       IN  /\ tags' = h.tags
           /\ out' = out \o SubSeq(html, pos, k - 1) \o h.repl
           /\ pos' = m.last + 1
    /\ UNCHANGED <<pc, call, html, i, open_tags, final_close_tags, result>>

\* _HTML_TAG_REGEX.sub finds no further match and returns; html is assigned.
TagSubDone ==
    /\ pc = "scan"
    /\ FindTag(html, pos) = 0
    /\ html' = out \o From(html, pos)
    /\ pos' = 0
    /\ out' = <<>>
    /\ pc' = "normalize"
    /\ UNCHANGED <<call, tags, i, open_tags, final_close_tags, result>>

\* 'html = generated_sanitize.normalize_html_helper(html)'; _balance_tags is
\* entered with 'open_tags = []'.
NormalizeHtml ==
    /\ pc = "normalize"
    /\ html' = normalize_html_helper(html)
    /\ i' = 0
    /\ open_tags' = <<>>
    /\ pc' = "balance"
    /\ UNCHANGED <<call, pos, out, tags, final_close_tags, result>>

\* One iteration of 'for i, tag in enumerate(tags)'.
BalanceTag ==
    /\ pc = "balance"
    /\ i < Len(tags)
    /\ LET r == BalanceRecord(open_tags, tags[i + 1])
       IN  /\ tags' = [tags EXCEPT ![i + 1] = r.replacement]
           /\ open_tags' = r.open_tags
    /\ i' = i + 1
    /\ UNCHANGED <<pc, call, html, pos, out, final_close_tags, result>>

\* "return ''.join(reversed(open_tags))": the loop is over, the result is bound
\* to final_close_tags and the frame of _balance_tags, open_tags with it, is gone.
BalanceReturn ==
    /\ pc = "balance"
    /\ i = Len(tags)
    /\ final_close_tags' = FinalCloseTags(open_tags)
    /\ open_tags' = <<>>
    /\ pc' = "reinsert"
    /\ UNCHANGED <<call, html, pos, out, tags, i, result>>

\* 'html = _REPLACEMENT_TAG_RE.sub(lambda match: tags[int(match.group(1))], html)'
ReinsertWhitelisted ==
    /\ pc = "reinsert"
    /\ LET inserted == ReinsertTags(html, tags)
       IN  IF inserted = Raised("IndexError")
           THEN /\ result' = Raise("IndexError")
                /\ pc' = "done"
                /\ html' = html
           ELSE /\ html' = inserted
                /\ pc' = "close"
                /\ result' = result
    /\ UNCHANGED <<call, pos, out, tags, i, open_tags, final_close_tags>>

\* 'return html + final_close_tags'
CloseOpenTags ==
    /\ pc = "close"
    /\ result' = Str(html \o final_close_tags)
    /\ pc' = "done"
    /\ UNCHANGED <<call, html, pos, out, tags, i, open_tags, final_close_tags>>

\* A caller constructs cls(content, content_dir, approval).
Call_construct ==
    /\ pc = "idle"
    /\ \E cls \in Classes, d \in Dirs, a \in Approvals :
          /\ call' = [op |-> "construct", cls |-> cls, content |-> ScriptTag,
                      content_dir |-> d, approval |-> a]
          /\ result' = Construct(cls, ScriptTag, d, a)
    /\ pc' = "done"
    /\ UNCHANGED <<html, pos, out, tags, i, open_tags, final_close_tags>>

Call_escape_html_attribute ==
    /\ pc = "idle"
    /\ \E v \in DirectiveValues :
          /\ call' = [op |-> "escape_html_attribute", value |-> v]
          /\ result' = escape_html_attribute(v)
    /\ pc' = "done"
    /\ UNCHANGED <<html, pos, out, tags, i, open_tags, final_close_tags>>

Call_escape_html_attribute_nospace ==
    /\ pc = "idle"
    /\ \E v \in DirectiveValues :
          /\ call' = [op |-> "escape_html_attribute_nospace", value |-> v]
          /\ result' = escape_html_attribute_nospace(v)
    /\ pc' = "done"
    /\ UNCHANGED <<html, pos, out, tags, i, open_tags, final_close_tags>>

Call_escape_html_rcdata ==
    /\ pc = "idle"
    /\ \E v \in DirectiveValues :
          /\ call' = [op |-> "escape_html_rcdata", value |-> v]
          /\ result' = escape_html_rcdata(v)
    /\ pc' = "done"
    /\ UNCHANGED <<html, pos, out, tags, i, open_tags, final_close_tags>>

Call_filter_no_auto_escape ==
    /\ pc = "idle"
    /\ \E v \in DirectiveValues :
          /\ call' = [op |-> "filter_no_auto_escape", value |-> v]
          /\ result' = filter_no_auto_escape(v)
    /\ pc' = "done"
    /\ UNCHANGED <<html, pos, out, tags, i, open_tags, final_close_tags>>

Next ==
    \/ Call_strip_html_tags
    \/ StripAllTags
    \/ EscapeMarker
    \/ TagSubHandler
    \/ TagSubDone
    \/ NormalizeHtml
    \/ BalanceTag
    \/ BalanceReturn
    \/ ReinsertWhitelisted
    \/ CloseOpenTags
    \/ Call_construct
    \/ Call_escape_html_attribute
    \/ Call_escape_html_attribute_nospace
    \/ Call_escape_html_rcdata
    \/ Call_filter_no_auto_escape

Spec == Init /\ [][Next]_vars

-----------------------------------------------------------------------------
(* Vocabulary of the properties.                                           *)

\* t occurs in s at position p.
StartsWith(s, p, t) ==
    p + Len(t) - 1 <= Len(s) /\ SubSeq(s, p, p + Len(t) - 1) = t

Contains(s, t) == \E p \in 1..Len(s) : StartsWith(s, p, t)

OpenTag(name) == <<"<">> \o name \o <<">">>

CloseTag(name) == <<"<", "/">> \o name \o <<">">>

\* The number of occurrences of t in s that start at or before position p.
Occurrences(s, t, p) == Cardinality({k \in 1..p : StartsWith(s, k, t)})

StripDone == pc = "done" /\ call.op = "_strip_html_tags"

StripReturned == StripDone /\ result.class = "str"

RECURSIVE MarkersFrom(_, _)
\* The numbers of the markers '[digits]' of s from position p on, in order.
MarkersFrom(s, p) ==
    IF p > Len(s) THEN <<>>
    ELSE LET m == MarkerMatchAt(s, p)
         IN  IF m.found THEN <<ParseInt(m.group1)>> \o MarkersFrom(s, m.last + 1)
             ELSE MarkersFrom(s, p + 1)

-----------------------------------------------------------------------------
(* C1  No-injection.                                                       *)

\* C1: in the output of _strip_html_tags every '<' is the first character of
\* '<name>' or '</name>' for a lower-case name of the whitelist; with the empty
\* whitelist the output holds no '<'.
C1_NoInjection ==
    StripDone =>
        /\ result.class = "str"
        /\ \A p \in 1..Len(result.content) :
              result.content[p] = "<" =>
                  \E name \in call.tag_whitelist :
                      /\ name = Lower(name)
                      /\ \/ StartsWith(result.content, p, OpenTag(name))
                         \/ StartsWith(result.content, p, CloseTag(name))

\* '<B x><br><' under {b, i} has become '<b>&lt;</b>'.
C1_Witness ==
    /\ StripDone
    /\ call.value = <<"<", "B", " ", "x", ">", "<", "b", "r", ">", "<">>
    /\ call.tag_whitelist = {Name_b, Name_i}
    /\ result = Str(<<"<", "b", ">", "&", "l", "t", ";", "<", "/", "b", ">">>)

-----------------------------------------------------------------------------
(* C2  Balance.                                                            *)

\* The tags of name are balanced in s: as many '<name>' as '</name>', and up to
\* every position at least as many '<name>' as '</name>'.
Balanced(s, name) ==
    /\ Occurrences(s, OpenTag(name), Len(s)) = Occurrences(s, CloseTag(name), Len(s))
    /\ \A p \in 1..Len(s) :
          Occurrences(s, CloseTag(name), p) <= Occurrences(s, OpenTag(name), p)

-----------------------------------------------------------------------------
(* C3  POP-THROUGH.                                                        *)

\* C3: a close tag that matches the stack entry at position p, the nearest one
\* from the top, is replaced by the entries from the top down to p, most
\* recently opened first, and exactly those are popped; '<b><i>x</b></i>' under
\* {b, i} becomes '<b><i>x</i></b>'.
C3_PopThrough ==
    /\ [][ (/\ pc = "balance"
            /\ i < Len(tags)
            /\ tags[i + 1][2] = "/"
            /\ \E k \in 1..Len(open_tags) : open_tags[k] = tags[i + 1])
           => LET n == Len(open_tags)
                  p == Max({k \in 1..n : open_tags[k] = tags[i + 1]})
              IN  /\ tags'[i + 1] = Join([k \in 1..(n - p + 1) |-> open_tags[n + 1 - k]])
                  /\ Len(open_tags') = p - 1
                  /\ \A k \in 1..(p - 1) : open_tags'[k] = open_tags[k] ]_vars
    /\ [](StripDone /\ call.value = CrossedInput /\ call.tag_whitelist = {Name_b, Name_i}
            => result = Str(<<"<", "b", ">", "<", "i", ">", "x", "<", "/", "i", ">", "<", "/", "b", ">">>))

\* '<b><i>x</b></i>': '</b>' was replaced by '</i></b>' and '</i>' dropped.
C3_Witness ==
    /\ StripDone
    /\ call.value = CrossedInput
    /\ tags = << <<"<", "b", ">">>, <<"<", "i", ">">>, <<"<", "/", "i", ">", "<", "/", "b", ">">>, <<>> >>
    /\ result = Str(<<"<", "b", ">", "<", "i", ">", "x", "<", "/", "i", ">", "<", "/", "b", ">">>)

-----------------------------------------------------------------------------
(* C4  Void exemption.                                                     *)

VoidCloseTags == {CloseTag(v) : v \in VoidElementNames}

VoidOpenTags == {OpenTag(v) : v \in VoidElementNames}

\* C4: the closing tag of a void element is never on the stack, in a replacement
\* that _balance_tags wrote, in the trailing suffix or in the output, and the
\* step that processes a void open tag leaves tags[i] and the stack as they are.
C4_VoidExemption ==
    /\ [](\A k \in 1..Len(open_tags) : open_tags[k] \notin VoidCloseTags)
    /\ [](pc \in {"balance", "reinsert", "close", "done"} =>
            \A k \in 1..i : \A t \in VoidCloseTags : ~Contains(tags[k], t))
    /\ [](\A t \in VoidCloseTags : ~Contains(final_close_tags, t))
    /\ [](StripReturned => \A t \in VoidCloseTags : ~Contains(result.content, t))
    /\ [][ (pc = "balance" /\ i < Len(tags) /\ tags[i + 1] \in VoidOpenTags)
           => (tags'[i + 1] = tags[i + 1] /\ open_tags' = open_tags) ]_vars

\* '<b><br></br>' under {b, i, br} has become '<b><br></b>'.
C4_Witness ==
    /\ StripDone
    /\ call.value = VoidInput
    /\ tags = << <<"<", "b", ">">>, <<"<", "b", "r", ">">>, <<>> >>
    /\ result = Str(<<"<", "b", ">", "<", "b", "r", ">", "<", "/", "b", ">">>)

-----------------------------------------------------------------------------
(* C5  End-of-input flush.                                                 *)

-----------------------------------------------------------------------------
(* C6  Capability gating.                                                  *)

\* The kind each concrete class is to carry.
FixedKind ==
    [SanitizedHtml |-> CONTENT_KIND.HTML, SanitizedJs |-> CONTENT_KIND.JS,
     SanitizedJsStrChars |-> CONTENT_KIND.JS_STR_CHARS,
     SanitizedUri |-> CONTENT_KIND.URI,
     SanitizedHtmlAttribute |-> CONTENT_KIND.ATTRIBUTES,
     SanitizedCss |-> CONTENT_KIND.CSS, UnsanitizedText |-> CONTENT_KIND.TEXT]

ConstructDone == pc = "done" /\ call.op = "construct"

\* The approval is an approval object with at least 20 characters of justification.
Justified(approval) ==
    /\ approval.class = "IActuallyUnderstandSoyTypeSafetyAndHaveSecurityApproval"
    /\ approval.justification # None
    /\ Len(approval.justification) >= 20

\* C6: the base class never constructs; UnsanitizedText always does; every other
\* class raises unless the approval is justified, and then yields a value of
\* its fixed kind.
C6_CapabilityGating ==
    ConstructDone =>
        CASE call.cls = "SanitizedContent" -> result = Raise("TypeError")
          [] call.cls = "UnsanitizedText" ->
                /\ result.class = "UnsanitizedText"
                /\ result.content_kind = FixedKind.UnsanitizedText
          [] OTHER ->
                IF Justified(call.approval)
                THEN /\ result.class = call.cls
                     /\ result.content_kind = FixedKind[call.cls]
                ELSE result = Raise("TypeError")

\* SanitizedHtml was constructed on a justification of exactly 20 characters.
C6_Witness ==
    /\ ConstructDone
    /\ call.cls = "SanitizedHtml"
    /\ Justified(call.approval)
    /\ Len(call.approval.justification) = 20
    /\ result.class = "SanitizedHtml"
    /\ result.content_kind = CONTENT_KIND.HTML

-----------------------------------------------------------------------------
(* C7  filter_no_auto_escape.                                              *)

FilterDone == pc = "done" /\ call.op = "filter_no_auto_escape"

TrustedKinds ==
    {CONTENT_KIND.HTML, CONTENT_KIND.JS, CONTENT_KIND.JS_STR_CHARS,
     CONTENT_KIND.URI, CONTENT_KIND.ATTRIBUTES, CONTENT_KIND.CSS}

IsTrusted(value) ==
    value.class \in ConcreteClasses /\ value.content_kind \in TrustedKinds

\* C7 as stated: a value of a trusted kind is returned unchanged and any other
\* value, a TEXT-kind one or a plain string, is replaced by 'zSoyz'.
C7_UntrustedNeverReturned ==
    FilterDone =>
        IF IsTrusted(call.value) THEN result = call.value
        ELSE result = Str(_INNOCUOUS_OUTPUT)

\* C7 amended: a value of kind TEXT is replaced by 'zSoyz'; every other value,
\* of a trusted kind or a plain string, is returned unchanged.
C7_TextKindReplaced ==
    FilterDone =>
        IF call.value.class = "UnsanitizedText"
        THEN result = Str(_INNOCUOUS_OUTPUT)
        ELSE result = call.value

\* UnsanitizedText('<script>') came back as 'zSoyz'.
C7_Witness ==
    /\ FilterDone
    /\ call.value.class = "UnsanitizedText"
    /\ call.value.content = ScriptTag
    /\ result = Str(_INNOCUOUS_OUTPUT)

-----------------------------------------------------------------------------
(* C8  Strip-before-normalize dispatch.                                    *)

DirectiveDone ==
    /\ pc = "done"
    /\ call.op \in {"escape_html_attribute", "escape_html_attribute_nospace",
                    "escape_html_rcdata"}

IsHtml(value) == value.class = "SanitizedHtml"

\* The content with every tag deleted and every '<' left over encoded.
Stripped(value) == _strip_html_tags(value.content, {})

\* C8 as stated: the three directives strip the tags of an HTML-kind value and
\* normalize what is left; any other value goes to the raw encoder.
C8_AllThreeStrip ==
    DirectiveDone =>
        CASE call.op = "escape_html_attribute_nospace" ->
                result = Str(IF IsHtml(call.value)
                             THEN normalize_html_nospace_helper(Stripped(call.value))
                             ELSE escape_html_nospace_helper(call.value.content))
          [] OTHER ->
                result = Str(IF IsHtml(call.value)
                             THEN normalize_html_helper(Stripped(call.value))
                             ELSE escape_html_helper(call.value.content))

\* C8 amended: escape_html_attribute and escape_html_attribute_nospace strip the
\* tags of an HTML-kind value and normalize what is left; escape_html_rcdata
\* normalizes the content of an HTML-kind value as it is; any other value goes
\* to the raw encoder.
C8_AttributesStrip ==
    DirectiveDone =>
        CASE call.op = "escape_html_attribute_nospace" ->
                result = Str(IF IsHtml(call.value)
                             THEN normalize_html_nospace_helper(Stripped(call.value))
                             ELSE escape_html_nospace_helper(call.value.content))
          [] call.op = "escape_html_attribute" ->
                result = Str(IF IsHtml(call.value)
                             THEN normalize_html_helper(Stripped(call.value))
                             ELSE escape_html_helper(call.value.content))
          [] OTHER ->
                result = Str(IF IsHtml(call.value)
                             THEN normalize_html_helper(call.value.content)
                             ELSE escape_html_helper(call.value.content))

\* escape_html_attribute(SanitizedHtml('<script>')) returned ''.
C8_Witness ==
    /\ DirectiveDone
    /\ call.op = "escape_html_attribute"
    /\ IsHtml(call.value)
    /\ call.value.content = ScriptTag
    /\ result = Str(<<>>)

-----------------------------------------------------------------------------
(* C9  Idempotence.                                                        *)

\* s holds no '[' followed by a digit.
NoBracketDigits(s) ==
    \A p \in 1..(Len(s) - 1) : ~(s[p] = "[" /\ IsDigit(s[p + 1]))

\* C9: an output without '[' followed by digits is a fixed point of
\* _strip_html_tags under the same whitelist, and the tags of such an output
\* come back from _balance_tags unchanged with nothing to append.
C9_Idempotence ==
    (StripReturned /\ NoBracketDigits(result.content)) =>
        /\ _strip_html_tags(result.content, call.tag_whitelist) = result.content
        /\ call.tag_whitelist # {} =>
              LET records == TagSub(call.tag_whitelist, result.content).tags
              IN  _balance_tags(records) =
                      [tags |-> records, final_close_tags |-> <<>>]

\* '<i><b></i>' under {b, i} has become '<i><b></b></i>', which is stripped to
\* itself.
C9_Witness ==
    /\ StripDone
    /\ call.value = <<"<", "i", ">", "<", "b", ">", "<", "/", "i", ">">>
    /\ call.tag_whitelist = {Name_b, Name_i}
    /\ result = Str(<<"<", "i", ">", "<", "b", ">", "<", "/", "b", ">", "<", "/", "i", ">">>)
    /\ _strip_html_tags(result.content, call.tag_whitelist) = result.content

-----------------------------------------------------------------------------
(* C10  Marker integrity.                                                  *)

\* C10: from the end of the scan to the reinsertion the markers of html are
\* 0, 1, ... in order, one per entry of tags, and every '[' of html starts one
\* of them; the reinsertion never raises.
C10_MarkerIntegrity ==
    /\ pc \in {"normalize", "balance", "reinsert"} =>
          /\ MarkersFrom(html, 1) = [k \in 1..Len(tags) |-> k - 1]
          /\ Occurrences(html, <<"[">>, Len(html)) = Len(tags)
    /\ StripDone => result.class = "str"

\* '[0]<b>' under {b, i}: at the reinsertion html is '&#91;0][0]'.
C10_Witness ==
    /\ pc = "reinsert"
    /\ call.value = <<"[", "0", "]", "<", "b", ">">>
    /\ call.tag_whitelist = {Name_b, Name_i}
    /\ html = <<"&", "#", "9", "1", ";", "0", "]", "[", "0", "]">>
    /\ Len(tags) = 1

====
